---------------------------- MODULE Spec2Model ----------------------------
(***************************************************************************)
(* A model of src/app.js: the tree builder (createElement), the host       *)
(* projection (createDom), the reconciler (updateProps, updateDom), the    *)
(* hook store (useState / setState) and the render loop (rerender), with   *)
(* the example application (App, Counter, Toggle) and the bootstrap.       *)
(*                                                                         *)
(* JavaScript values are records tagged by their kind in field t:          *)
(*   string, number, boolean, null, undefined, array, function, vnode.     *)
(* The host document is a heap of nodes named by natural numbers; a node's *)
(* name is its identity.                                                   *)
(***************************************************************************)
EXTENDS Integers, Sequences, FiniteSets, TLC

VARIABLES
    hooks,        \* currentComponent.hooks
    hookIndex,    \* the global hookIndex
    vnode,        \* currentComponent.vnode
    newVNode,     \* rerender's local newVNode, while a reconcile is running
    dom,          \* the host document: [nodes, next]
    stack,        \* the activation records of updateDom, innermost first
    pc,           \* "boot", "idle", "reconcile", "threw"; "built" after createElement
    renders,      \* history: invocations of currentComponent.render
    setCalls,     \* history: invocations of a setState closure
    passes,       \* history: root invocations of updateDom by rerender
    lastSet,      \* history: per call-order position, the last value set
    setters,      \* history: every setState closure useState has returned
    ops,          \* history: host operations of the running / last reconcile
    dom0,         \* history: the host document when the reconcile started
    consistent0,  \* history: host = projection of vnode when it started
    last,         \* history: the updateDom activation that started or ended last
    trigger,      \* history: what started the running / last render
    failures,     \* history: the reconciles that have thrown
    ceIn,         \* createElement's arguments (tree-builder specification)
    ceOut         \* createElement's result

vars == <<hooks, hookIndex, vnode, newVNode, dom, stack, pc, renders, setCalls,
          passes, lastSet, setters, ops, dom0, consistent0, last, trigger,
          failures, ceIn, ceOut>>

---------------------------------------------------------------------------
(* Bounds of the model.                                                    *)

\* the longest child list of a tree the generic render function returns
MaxKids == 3
\* the number of renders (the bootstrap's included) of the example App
MaxRenders == 4
\* the counter's state stays within -MaxCount .. MaxCount
MaxCount == 2
\* no render starts once MaxFailures reconciles have thrown
MaxFailures == 2
\* the longest argument list of createElement in the tree-builder specification
MaxArgs == 2

---------------------------------------------------------------------------
(* JavaScript values.                                                      *)

Str(s) == [t |-> "string", v |-> s]
Num(n) == [t |-> "number", v |-> n]
Bool(b) == [t |-> "boolean", v |-> b]
Null == [t |-> "null"]
Undefined == [t |-> "undefined"]
Arr(items) == [t |-> "array", items |-> items]
Fn(name) == [t |-> "function", fn |-> name]

\* typeof x
typeof(x) ==
    IF x.t \in {"null", "array", "vnode"} THEN "object" ELSE x.t

\* !x
Falsy(x) ==
    \/ x.t \in {"undefined", "null"}
    \/ x = Num(0)
    \/ x = Str("")
    \/ x = Bool(FALSE)

\* { ...a, ...b }
Spread(a, b) ==
    [n \in DOMAIN a \cup DOMAIN b |-> IF n \in DOMAIN b THEN b[n] ELSE a[n]]

\* xs[i] with a zero-based i: undefined beyond the end
At(xs, i) ==
    IF i + 1 \in DOMAIN xs THEN xs[i + 1] ELSE Undefined

\* the characters of the property names the model uses
Chars(name) ==
    CASE name = "children" -> <<"c", "h", "i", "l", "d", "r", "e", "n">>
      [] name = "className" -> <<"c", "l", "a", "s", "s", "N", "a", "m", "e">>
      [] name = "nodeValue" -> <<"n", "o", "d", "e", "V", "a", "l", "u", "e">>
      [] name = "onClick" -> <<"o", "n", "C", "l", "i", "c", "k">>
      [] name = "onInput" -> <<"o", "n", "I", "n", "p", "u", "t">>

\* name.startsWith('on')
startsWithOn(name) ==
    LET cs == Chars(name)
    IN  Len(cs) >= 2 /\ SubSeq(cs, 1, 2) = <<"o", "n">>

LowerChar(c) ==
    CASE c = "C" -> "c"
      [] c = "I" -> "i"
      [] c = "N" -> "n"
      [] c = "V" -> "v"
      [] OTHER -> c

\* name.slice(2).toLowerCase()
eventType(name) ==
    LET cs == Chars(name)
        sliced == SubSeq(cs, 3, Len(cs))
    IN  [i \in DOMAIN sliced |-> LowerChar(sliced[i])]

---------------------------------------------------------------------------
(* Virtual DOM functions.                                                  *)

createTextElement(text) ==
    [t |-> "vnode",
     type |-> "TEXT_ELEMENT",
     props |-> [nodeValue |-> text, children |-> <<>>]]

RECURSIVE flat(_)
\* children.flat(): one level of nested arrays is spliced in
flat(children) ==
    IF children = <<>> THEN <<>>
    ELSE LET c == Head(children)
         IN  (IF c.t = "array" THEN c.items ELSE <<c>>) \o flat(Tail(children))

\* children.flat().map(child => typeof child === 'object' ? child : createTextElement(child))
flatChildren(children) ==
    LET f == flat(children)
    IN  [i \in DOMAIN f |->
            IF typeof(f[i]) = "object" THEN f[i] ELSE createTextElement(f[i])]

\* props || {}
orEmpty(props) ==
    IF Falsy(props) THEN <<>> ELSE props.fields

Obj(fields) == [t |-> "object", fields |-> fields]

\* The render state a component function reads and writes through useState:
\* st = [hooks, hookIndex, calls, gen, setters].
\* calls (history) counts the useState calls of this render; gen (history)
\* names the render, so that the onClick closures of different renders are
\* different objects.  A setState closure captures the one hooks array and
\* its index, so the closures of one index behave alike in every render.
useState(initial, st) ==
    LET hs == IF st.hookIndex >= Len(st.hooks)
              THEN Append(st.hooks, initial)
              ELSE st.hooks
        setState == [t |-> "function", fn |-> "setState",
                     currentIndex |-> st.hookIndex, callPos |-> st.calls]
    IN  [state |-> hs[st.hookIndex + 1],
         setState |-> setState,
         st |-> [st EXCEPT !.hooks = hs,
                           !.hookIndex = st.hookIndex + 1,
                           !.calls = st.calls + 1,
                           !.setters = st.setters \cup {setState}]]

\* lines 4-9 and 15-21 of createElement: the VNode for a host tag
createHostElement(type, props, children) ==
    [t |-> "vnode",
     type |-> type.v,
     props |-> Spread(orEmpty(props), [children |-> flatChildren(children)])]

\* createElement for a host tag given by its name
h(tag, props, children) ==
    createHostElement(Str(tag), props, children)

\* the closure () => setCount(count + 1), () => setCount(count - 1) or
\* () => setOn(!on) made by render number gen
Handler(fn, setter, state, gen) ==
    [t |-> "function", fn |-> fn, setter |-> setter, state |-> state, gen |-> gen]

CounterTree(count, setCount, gen) ==
    h("div", Null,
      <<h("h1", Null,
          <<Str("Count: "),
            h("span",
              Obj([className |-> Str(IF count.v > 0 THEN "green"
                                     ELSE IF count.v < 0 THEN "red" ELSE "gray")]),
              <<count>>)>>),
        h("button", Obj([onClick |-> Handler("inc", setCount, count, gen)]),
          <<Str("Increase")>>),
        h("button", Obj([onClick |-> Handler("dec", setCount, count, gen)]),
          <<Str("Decrease")>>)>>)

\* Counter(): [value, st]
Counter(props, st) ==
    [value |-> CounterTree(useState(Num(0), st).state,
                           useState(Num(0), st).setState, st.gen),
     st |-> useState(Num(0), st).st]

ToggleTree(on, setOn, gen) ==
    h("div", Null,
      <<h("h2", Null,
          <<Str("The toggle is"), Str(" "),
            h("span", Obj([className |-> Str(IF on.v THEN "green" ELSE "red")]),
              <<Str(IF on.v THEN "ON" ELSE "OFF")>>)>>),
        h("button", Obj([onClick |-> Handler("toggle", setOn, on, gen)]),
          <<Str("Toggle")>>)>>)

\* Toggle(): [value, st]
Toggle(props, st) ==
    [value |-> ToggleTree(useState(Bool(TRUE), st).state,
                          useState(Bool(TRUE), st).setState, st.gen),
     st |-> useState(Bool(TRUE), st).st]

\* type(props) for the component functions the App uses
CallComponent(type, props, st) ==
    IF type.fn = "Counter" THEN Counter(props, st) ELSE Toggle(props, st)

\* createElement(type, props, ...children) during a render: [value, st]
createElement(type, props, children, st) ==
    IF typeof(type) = "function"
    THEN CallComponent(type,
                       Spread(orEmpty(props), [children |-> flatChildren(children)]),
                       st)
    ELSE [value |-> createHostElement(type, props, children), st |-> st]

AppTree(counter, toggle) ==
    [value |-> h("div", Null,
                 <<h("h1", Null, <<Str("React Clone")>>), counter.value,
                   toggle.value>>),
     st |-> toggle.st]

AppToggle(counter) ==
    AppTree(counter, createElement(Fn("Toggle"), Null, <<>>, counter.st))

\* App(): [value, st]; the arguments of the outer createElement are evaluated
\* left to right, <Counter /> before <Toggle />
App(st) ==
    AppToggle(createElement(Fn("Counter"), Null, <<>>, st))

---------------------------------------------------------------------------
(* The host document.                                                      *)
(*                                                                         *)
(* A host state hs = [nodes, next, ops, err]: nodes maps a node's name to  *)
(* [nodeType, tagName, props, listeners, childNodes]; next is the next     *)
(* unused name; ops (history) collects the host operations performed; err  *)
(* is set once an operation has thrown, and everything after it is skipped *)
(* as the exception propagates.                                            *)

\* document.getElementById('root')
RootId == 1

\* parent.childNodes[index] of a missing child, and an undefined dom
NoNode == 0

Throw(hs) == [hs EXCEPT !.err = TRUE]

Did(hs, op) == [hs EXCEPT !.ops = @ \cup {op}]

\* String(v), as the host converts the data of a text node
DOMString(v) ==
    CASE v.t = "string" -> v.v
      [] v.t = "number" -> ToString(v.v)
      [] v.t = "boolean" -> IF v.v THEN "true" ELSE "false"
      [] v.t = "null" -> "null"
      [] OTHER -> "undefined"

\* dom[name] = v has an effect: the nodeValue of an element is null and
\* assigning to it does nothing
Settable(node, name) ==
    ~(node.nodeType = "element" /\ name = "nodeValue")

\* the value the host keeps for dom[name] = v: the data of a text node and
\* the className of an element are strings, any other name is a plain
\* JavaScript property of the node object
Stored(node, name, v) ==
    IF node.nodeType = "text" /\ name = "nodeValue"
    THEN Str(IF v.t = "null" THEN "" ELSE DOMString(v))
    ELSE IF node.nodeType = "element" /\ name = "className"
    THEN Str(DOMString(v))
    ELSE v

\* document.createTextNode(data) / document.createElement(tagName)
createNode(hs, nodeType, tagName, props) ==
    [Did(hs, IF nodeType = "text" THEN "createTextNode" ELSE "createElement")
        EXCEPT !.nodes = [n \in DOMAIN hs.nodes \cup {hs.next} |->
                             IF n = hs.next
                             THEN [nodeType |-> nodeType, tagName |-> tagName,
                                   props |-> props, listeners |-> {},
                                   childNodes |-> <<>>]
                             ELSE hs.nodes[n]],
               !.next = hs.next + 1]

\* dom.addEventListener(type, listener): a listener already there is not added twice
addEventListener(hs, id, type, listener) ==
    IF hs.err THEN hs
    ELSE IF id = NoNode THEN Throw(hs)
    ELSE [Did(hs, "addEventListener")
            EXCEPT !.nodes[id].listeners = @ \cup {<<type, listener>>}]

\* dom.removeEventListener(type, listener)
removeEventListener(hs, id, type, listener) ==
    IF hs.err THEN hs
    ELSE IF id = NoNode THEN Throw(hs)
    ELSE [Did(hs, "removeEventListener")
            EXCEPT !.nodes[id].listeners = @ \ {<<type, listener>>}]

\* dom[name] = value; op is "assign", or "clear" for dom[name] = ''
setProperty(hs, id, name, value, op) ==
    IF hs.err THEN hs
    ELSE IF id = NoNode THEN Throw(hs)
    ELSE IF ~Settable(hs.nodes[id], name) THEN Did(hs, op)
    ELSE LET node == hs.nodes[id]
         IN  [Did(hs, op)
                EXCEPT !.nodes[id].props =
                    [n \in DOMAIN node.props \cup {name} |->
                        IF n = name THEN Stored(node, name, value)
                        ELSE node.props[n]]]

\* parent.appendChild(child), child a node that has no parent yet
appendChild(hs, parent, child) ==
    IF hs.err THEN hs
    ELSE IF parent = NoNode \/ child = NoNode THEN Throw(hs)
    ELSE [Did(hs, "appendChild")
            EXCEPT !.nodes[parent].childNodes = Append(@, child)]

\* the sequence xs without its elements equal to x
Without(xs, x) ==
    LET keep == {i \in DOMAIN xs : xs[i] # x}
        pos(i) == Cardinality({j \in keep : j <= i})
    IN  [k \in 1..Cardinality(keep) |-> xs[CHOOSE i \in keep : pos(i) = k]]

\* parent.removeChild(child): a TypeError when child is not a node
removeChild(hs, parent, child) ==
    IF hs.err THEN hs
    ELSE IF parent = NoNode \/ child = NoNode THEN Throw(hs)
    ELSE [Did(hs, "removeChild")
            EXCEPT !.nodes[parent].childNodes = Without(@, child)]

\* parent.replaceChild(newChild, oldChild): a TypeError when oldChild is not a node
replaceChild(hs, parent, newChild, oldChild) ==
    IF hs.err THEN hs
    ELSE IF parent = NoNode \/ newChild = NoNode \/ oldChild = NoNode THEN Throw(hs)
    ELSE [Did(hs, "replaceChild")
            EXCEPT !.nodes[parent].childNodes =
                [i \in DOMAIN @ |-> IF @[i] = oldChild THEN newChild ELSE @[i]]]

\* the names of a props object in some order
RECURSIVE Keys(_)
Keys(S) ==
    IF S = {} THEN <<>>
    ELSE LET n == CHOOSE x \in S : TRUE
         IN  <<n>> \o Keys(S \ {n})

---------------------------------------------------------------------------
(* Real DOM rendering.                                                     *)

RECURSIVE createDomProps(_, _, _, _)
\* Object.keys(vnode.props).forEach(...) of createDom, from the names left
createDomProps(hs, id, props, names) ==
    IF names = <<>> \/ hs.err THEN hs
    ELSE LET name == Head(names)
             hs1 == IF name = "children" THEN hs
                    ELSE IF startsWithOn(name)
                    THEN addEventListener(hs, id, eventType(name), props[name])
                    ELSE setProperty(hs, id, name, props[name], "assign")
         IN  createDomProps(hs1, id, props, Tail(names))

RECURSIVE createDom(_, _)
RECURSIVE createDomChildren(_, _, _, _)

\* parent.appendChild(c) for the result c of createDom
appendCreated(c, parent) ==
    appendChild(c.hs, parent, c.dom)

\* vnode.props.children.forEach(child => dom.appendChild(createDom(child))), from child i
createDomChildren(hs, id, children, i) ==
    IF i > Len(children) \/ hs.err THEN hs
    ELSE createDomChildren(appendCreated(createDom(children[i], hs), id),
                           id, children, i + 1)

createDomResult(hs, id) ==
    [hs |-> hs, dom |-> IF hs.err THEN NoNode ELSE id]

\* createDom(vnode): [hs, dom]; reading vnode.type or vnode.props of a value
\* that is no VNode throws
createDom(v, hs) ==
    IF hs.err THEN [hs |-> hs, dom |-> NoNode]
    ELSE IF v.t # "vnode" THEN [hs |-> Throw(hs), dom |-> NoNode]
    ELSE createDomResult(
             createDomChildren(
                 createDomProps(
                     IF v.type = "TEXT_ELEMENT"
                     THEN createNode(hs, "text", "#text",
                                     [nodeValue |-> Str(DOMString(v.props.nodeValue))])
                     ELSE createNode(hs, "element", v.type, <<>>),
                     hs.next, v.props, Keys(DOMAIN v.props)),
                 hs.next, v.props.children, 1),
             hs.next)

\* a render that creates the host tree and leaves it out of the container
renderDetached(v, container, hs) ==
    createDom(v, hs).hs

\* render(vnode, container)
render(v, container, hs) ==
    appendCreated(createDom(v, hs), container)

RECURSIVE updatePropsOld(_, _, _, _, _)
\* for (const name in oldProps) of updateProps, from the names left
updatePropsOld(hs, id, newProps, oldProps, names) ==
    IF names = <<>> \/ hs.err THEN hs
    ELSE LET name == Head(names)
             hs1 == IF startsWithOn(name)
                    THEN removeEventListener(hs, id, eventType(name), oldProps[name])
                    ELSE IF ~(name \in DOMAIN newProps)
                    THEN setProperty(hs, id, name, Str(""), "clear")
                    ELSE hs
         IN  updatePropsOld(hs1, id, newProps, oldProps, Tail(names))

RECURSIVE updatePropsNew(_, _, _, _)
\* for (const name in newProps) of updateProps, from the names left
updatePropsNew(hs, id, newProps, names) ==
    IF names = <<>> \/ hs.err THEN hs
    ELSE LET name == Head(names)
             hs1 == IF name = "children" THEN hs
                    ELSE IF startsWithOn(name)
                    THEN addEventListener(hs, id, eventType(name), newProps[name])
                    ELSE setProperty(hs, id, name, newProps[name], "assign")
         IN  updatePropsNew(hs1, id, newProps, Tail(names))

\* an updateProps whose first loop clears no property
updatePropsKeepsStale(hs, id, newProps, oldProps) ==
    updatePropsNew(updatePropsOld(hs, id, oldProps, oldProps, Keys(DOMAIN oldProps)),
                   id, newProps, Keys(DOMAIN newProps))

\* an updateProps whose first loop takes no name for one of newProps, so
\* that it clears children like any other plain property
updatePropsClearsChildren(hs, id, newProps, oldProps) ==
    updatePropsNew(updatePropsOld(hs, id, <<>>, oldProps, Keys(DOMAIN oldProps)),
                   id, newProps, Keys(DOMAIN newProps))

\* an updateProps whose first loop clears every plain property of oldProps
updatePropsClearsAll(hs, id, newProps, oldProps) ==
    updatePropsNew(updatePropsOld(hs, id, [children |-> <<>>], oldProps,
                                  Keys(DOMAIN oldProps)),
                   id, newProps, Keys(DOMAIN newProps))

\* updateProps(dom, newProps, oldProps)
updateProps(hs, id, newProps, oldProps) ==
    updatePropsNew(updatePropsOld(hs, id, newProps, oldProps, Keys(DOMAIN oldProps)),
                   id, newProps, Keys(DOMAIN newProps))

---------------------------------------------------------------------------
(* Component reconciliation.                                               *)
(*                                                                         *)
(* updateDom is recursive; the model runs one activation per step and      *)
(* keeps the activations that are waiting in stack.  A "call" record is an *)
(* invocation about to start; a "ret" record is an activation in its       *)
(* for-loop (lines 109-116), waiting for the calls above it to return.     *)

\* parent.childNodes[index]
childAt(nodes, parent, index) ==
    IF index + 1 \in DOMAIN nodes[parent].childNodes
    THEN nodes[parent].childNodes[index + 1]
    ELSE NoNode

\* a comparison that finds every pair of types different
neverSameType(newV, oldV) ==
    FALSE

\* !(newVNode.type !== oldVNode.type)
sameType(newV, oldV) ==
    newV.type = oldV.type

\* Math.max(a, b)
max(a, b) ==
    IF a >= b THEN a ELSE b

CallRec(parent, newV, oldV, index) ==
    [k |-> "call", parent |-> parent, newVNode |-> newV, oldVNode |-> oldV,
     index |-> index]

\* the calls of the for-loop of lines 109-116, in the order they are made
childCalls(existingDom, newV, oldV) ==
    [i \in 1..max(Len(newV.props.children), Len(oldV.props.children)) |->
        CallRec(existingDom, At(newV.props.children, i - 1),
                At(oldV.props.children, i - 1), i - 1)]

\* the created node is appended and existingDom stays
appendByCreated(c, parent, existingDom) ==
    appendChild(c.hs, parent, c.dom)

\* parent.replaceChild(c, existingDom) for the result c of createDom
replaceByCreated(c, parent, existingDom) ==
    replaceChild(c.hs, parent, c.dom, existingDom)

\* One activation of updateDom(parent, newVNode, oldVNode, index), up to its
\* recursive calls: [hs, case, existingDom, calls].  Reading parent.childNodes
\* of an undefined parent throws.
updateDom(hs, parent, newV, oldV, index) ==
    IF parent = NoNode
    THEN [hs |-> Throw(hs), case |-> "none", existingDom |-> NoNode, calls |-> <<>>]
    ELSE LET existingDom == childAt(hs.nodes, parent, index)
         IN  IF Falsy(oldV)
             THEN [hs |-> appendCreated(createDom(newV, hs), parent),
                   case |-> "append", existingDom |-> existingDom, calls |-> <<>>]
             ELSE IF Falsy(newV)
             THEN [hs |-> removeChild(hs, parent, existingDom), case |-> "remove",
                   existingDom |-> existingDom, calls |-> <<>>]
             ELSE IF ~sameType(newV, oldV)
             THEN [hs |-> replaceByCreated(createDom(newV, hs), parent, existingDom),
                   case |-> "replace", existingDom |-> existingDom, calls |-> <<>>]
             ELSE [hs |-> updateProps(hs, existingDom, newV.props, oldV.props),
                   case |-> "patch", existingDom |-> existingDom,
                   calls |-> childCalls(existingDom, newV, oldV)]

---------------------------------------------------------------------------
(* Relations between the host document and a VTree, used by the history    *)
(* variables and by the properties.                                        *)

HandlerNames(props) == {n \in DOMAIN props \ {"children"} : startsWithOn(n)}

PlainNames(props) == {n \in DOMAIN props \ {"children"} : ~startsWithOn(n)}

RECURSIVE Projects(_, _, _)
\* the host subtree at id is the one createDom(v) builds: kinds, tags, child
\* order, property values (a cleared property counting as absent), listeners
Projects(nodes, id, v) ==
    /\ id # NoNode
    /\ v.t = "vnode"
    /\ LET node == nodes[id]
       IN  /\ node.nodeType = (IF v.type = "TEXT_ELEMENT" THEN "text" ELSE "element")
           /\ node.tagName = (IF v.type = "TEXT_ELEMENT" THEN "#text" ELSE v.type)
           /\ \A n \in PlainNames(v.props) :
                 /\ n \in DOMAIN node.props
                 /\ node.props[n] = Stored(node, n, v.props[n])
           /\ \A n \in DOMAIN node.props \ PlainNames(v.props) :
                 node.props[n] = Str("")
           /\ node.listeners =
                 {<<eventType(n), v.props[n]>> : n \in HandlerNames(v.props)}
           /\ Len(node.childNodes) = Len(v.props.children)
           /\ \A i \in DOMAIN node.childNodes :
                 Projects(nodes, node.childNodes[i], v.props.children[i])

\* the document under the mount root is the projection of v
Mounted(d, v) ==
    /\ Len(d.nodes[RootId].childNodes) = 1
    /\ Projects(d.nodes, d.nodes[RootId].childNodes[1], v)

RECURSIVE Preorder(_, _)
RECURSIVE PreorderSeq(_, _)
PreorderSeq(nodes, ids) ==
    IF ids = <<>> THEN <<>>
    ELSE Preorder(nodes, Head(ids)) \o PreorderSeq(nodes, Tail(ids))

\* the nodes of the subtree at id, parents before children
Preorder(nodes, id) ==
    <<id>> \o PreorderSeq(nodes, nodes[id].childNodes)

Range(xs) == {xs[i] : i \in DOMAIN xs}

\* The nodes that left the document are garbage once no reconcile runs (the
\* only references to host nodes are updateDom's locals), and a name means
\* nothing but identity: between renders the document is kept under the names
\* 1, 2, ... in document order.
Compact(d) ==
    LET order == Preorder(d.nodes, RootId)
        name(id) == CHOOSE i \in DOMAIN order : order[i] = id
    IN  [nodes |-> [i \in DOMAIN order |->
                       [d.nodes[order[i]] EXCEPT
                           !.childNodes = [j \in DOMAIN @ |-> name(@[j])]]],
         next |-> Len(order) + 1]

---------------------------------------------------------------------------
(* The state machine.                                                      *)

NoCall ==
    [case |-> "none", outcome |-> "none", parent |-> NoNode, index |-> 0,
     existingDom |-> NoNode, newVNode |-> Undefined, oldVNode |-> Undefined]

NoTrigger == [kind |-> "none"]

\* an empty document with the mount root
EmptyDocument ==
    [nodes |-> [n \in {RootId} |->
                   [nodeType |-> "element", tagName |-> "div", props |-> <<>>,
                    listeners |-> {}, childNodes |-> <<>>]],
     next |-> RootId + 1]

HostState(d, o) == [nodes |-> d.nodes, next |-> d.next, ops |-> o, err |-> FALSE]

\* lines 121-122, 201-205 and the page before the script runs
InitProgram ==
    /\ hooks = <<>>
    /\ hookIndex = 0
    /\ vnode = Null
    /\ newVNode = Null
    /\ dom = EmptyDocument
    /\ stack = <<>>
    /\ pc = "boot"
    /\ renders = 0
    /\ setCalls = 0
    /\ passes = 0
    /\ lastSet = <<>>
    /\ setters = {}
    /\ ops = {}
    /\ dom0 = EmptyDocument
    /\ consistent0 = TRUE
    /\ last = NoCall
    /\ trigger = NoTrigger
    /\ failures = 0

Init ==
    /\ InitProgram
    /\ ceIn = Null
    /\ ceOut = Null

\* currentComponent.render() for the App of the repository, as render number gen
RenderApp(hs, hi, gen) ==
    App([hooks |-> hs, hookIndex |-> hi, calls |-> 0, gen |-> gen, setters |-> {}])

\* lines 207-208: currentComponent.vnode = currentComponent.render();
\* render(currentComponent.vnode, document.getElementById('root'))
Bootstrap ==
    /\ pc = "boot"
    /\ \E r \in {RenderApp(hooks, hookIndex, renders + 1)} :
         \E hs \in {render(r.value, RootId, HostState(dom, {}))} :
           /\ vnode' = r.value
           /\ hooks' = r.st.hooks
           /\ hookIndex' = r.st.hookIndex
           /\ setters' = setters \cup r.st.setters
           /\ lastSet' = r.st.hooks
           /\ dom' = [nodes |-> hs.nodes, next |-> hs.next]
           /\ ops' = hs.ops
           /\ pc' = IF hs.err THEN "threw" ELSE "idle"
    /\ renders' = renders + 1
    /\ trigger' = [kind |-> "bootstrap"]
    /\ UNCHANGED <<newVNode, stack, setCalls, passes, dom0, consistent0, last,
                   failures, ceIn, ceOut>>

\* hooks[currentIndex] = newValue, on a JavaScript array
assignIndex(hs, i, v) ==
    [j \in 1..max(Len(hs), i + 1) |->
        IF j = i + 1 THEN v ELSE IF j <= Len(hs) THEN hs[j] ELSE Undefined]

\* a rerender that leaves hookIndex where the last render ended
keepHookIndex(hi) ==
    hi

\* line 145: hookIndex = 0
resetHookIndex(hi) ==
    0

\* a rerender that stores the new tree before the reconcile has run
rerenderAssignsFirst(r, why) ==
    /\ hooks' = r.st.hooks
    /\ hookIndex' = r.st.hookIndex
    /\ newVNode' = r.value
    /\ vnode' = r.value
    /\ stack' = <<CallRec(RootId, r.value, vnode, 0)>>
    /\ pc' = "reconcile"
    /\ setters' = setters \cup r.st.setters
    /\ ops' = {}
    /\ dom0' = dom
    /\ consistent0' = Mounted(dom, vnode)
    /\ last' = NoCall
    /\ trigger' = why
    /\ UNCHANGED <<dom, failures, ceIn, ceOut>>

\* lines 147-151 of rerender, for the result r of currentComponent.render():
\* updateDom(document.getElementById('root'), newVNode, currentComponent.vnode)
\* is called; line 152 waits for it to return
rerender(r, why) ==
    /\ hooks' = r.st.hooks
    /\ hookIndex' = r.st.hookIndex
    /\ newVNode' = r.value
    /\ stack' = <<CallRec(RootId, r.value, vnode, 0)>>
    /\ pc' = "reconcile"
    /\ setters' = setters \cup r.st.setters
    /\ ops' = {}
    /\ dom0' = dom
    /\ consistent0' = Mounted(dom, vnode)
    /\ last' = NoCall
    /\ trigger' = why
    /\ UNCHANGED <<vnode, dom, failures, ceIn, ceOut>>

\* line 135 then line 136: hooks[currentIndex] = newValue; rerender(), which
\* resets hookIndex (line 145) and renders (line 146)
writeThenRerender(s, newValue, why) ==
    /\ \E r \in {RenderApp(assignIndex(hooks, s.currentIndex, newValue),
                           resetHookIndex(hookIndex), renders + 1)} :
          rerender(r, why)
    /\ renders' = renders + 1
    /\ setCalls' = setCalls + 1
    /\ passes' = passes + 1
    /\ lastSet' = assignIndex(lastSet, s.callPos, newValue)

\* a setter that returns at once when the value is the one the slot holds
setStateIfChanged(s, newValue, why) ==
    IF At(hooks, s.currentIndex) = newValue
    THEN /\ setCalls' = setCalls + 1
         /\ lastSet' = assignIndex(lastSet, s.callPos, newValue)
         /\ UNCHANGED <<hooks, hookIndex, vnode, newVNode, dom, stack, pc, renders,
                        passes, setters, ops, dom0, consistent0, last, trigger,
                        failures, ceIn, ceOut>>
    ELSE writeThenRerender(s, newValue, why)

\* lines 134-137: the closure setState(newValue) of useState
setState(s, newValue, why) ==
    writeThenRerender(s, newValue, why)

\* what the onClick closures of Counter and Toggle pass to their setter
HandlerArg(f) ==
    CASE f.fn = "inc" -> Num(f.state.v + 1)
      [] f.fn = "dec" -> Num(f.state.v - 1)
      [] f.fn = "toggle" -> Bool(~f.state.v)

Click == <<"c", "l", "i", "c", "k">>

InBounds(v) ==
    v.t = "number" => (v.v >= -MaxCount /\ v.v <= MaxCount)

\* the user clicks a host node: a click listener of the node runs
ClickOn(id, l) ==
    /\ pc = "idle"
    /\ renders < MaxRenders
    /\ l[1] = Click
    /\ InBounds(HandlerArg(l[2]))
    /\ setState(l[2].setter, HandlerArg(l[2]),
                [kind |-> "click", node |-> id, listener |-> l[2]])

\* the values a caller passes to the setter of call-order position p
SlotValues(p) ==
    IF p = 0 THEN {Num(n) : n \in -MaxCount..MaxCount}
    ELSE {Bool(TRUE), Bool(FALSE)}

\* a setState closure of any earlier render is called with a value
SetStateCall(s, v) ==
    /\ pc = "idle"
    /\ renders < MaxRenders
    /\ setState(s, v, [kind |-> "setState", setter |-> s, value |-> v])

\* one activation of updateDom starts and runs up to its recursive calls
UpdateDomCall ==
    /\ pc = "reconcile"
    /\ stack # <<>>
    /\ Head(stack).k = "call"
    /\ \E f \in {Head(stack)} :
       \E r \in {updateDom(HostState(dom, ops), f.parent, f.newVNode, f.oldVNode,
                           f.index)} :
       \E rec \in {[case |-> r.case, outcome |-> "returned", parent |-> f.parent,
                    index |-> f.index, existingDom |-> r.existingDom,
                    newVNode |-> f.newVNode, oldVNode |-> f.oldVNode]} :
           /\ dom' = [nodes |-> r.hs.nodes, next |-> r.hs.next]
           /\ ops' = r.hs.ops
           /\ IF r.hs.err
              THEN /\ pc' = "threw"
                   /\ stack' = stack
                   /\ last' = [rec EXCEPT !.outcome = "threw"]
              ELSE IF r.case = "patch"
              THEN /\ pc' = pc
                   /\ stack' = r.calls
                               \o <<[k |-> "ret", parent |-> f.parent,
                                     index |-> f.index, newVNode |-> f.newVNode,
                                     oldVNode |-> f.oldVNode,
                                     existingDom |-> r.existingDom,
                                     kids0 |-> IF r.existingDom = NoNode THEN <<>>
                                               ELSE dom.nodes[r.existingDom].childNodes,
                                     matched |-> Projects(dom.nodes, r.existingDom,
                                                          f.oldVNode)]>>
                               \o Tail(stack)
                   /\ last' = [rec EXCEPT !.outcome = "running"]
              ELSE /\ pc' = pc
                   /\ stack' = Tail(stack)
                   /\ last' = rec
    /\ UNCHANGED <<hooks, hookIndex, vnode, newVNode, renders, setCalls, passes,
                   lastSet, setters, dom0, consistent0, trigger, failures, ceIn, ceOut>>

\* the for-loop of an activation is over: updateDom returns (line 118)
UpdateDomReturn ==
    /\ pc = "reconcile"
    /\ stack # <<>>
    /\ Head(stack).k = "ret"
    /\ stack' = Tail(stack)
    /\ last' = [case |-> "patch", outcome |-> "returned",
                parent |-> Head(stack).parent, index |-> Head(stack).index,
                existingDom |-> Head(stack).existingDom,
                newVNode |-> Head(stack).newVNode,
                oldVNode |-> Head(stack).oldVNode]
    /\ UNCHANGED <<hooks, hookIndex, vnode, newVNode, dom, pc, renders, setCalls,
                   passes, lastSet, setters, ops, dom0, consistent0, trigger,
                   failures, ceIn, ceOut>>

\* line 152: currentComponent.vnode = newVNode, and rerender returns
RerenderEnd ==
    /\ pc = "reconcile"
    /\ stack = <<>>
    /\ vnode' = newVNode
    /\ newVNode' = Null
    /\ dom' = Compact(dom)
    /\ dom0' = Compact(dom)
    /\ pc' = "idle"
    /\ ops' = {}
    /\ consistent0' = TRUE
    /\ last' = NoCall
    /\ trigger' = NoTrigger
    /\ UNCHANGED <<hooks, hookIndex, stack, renders, setCalls, passes, lastSet,
                   setters, failures, ceIn, ceOut>>

\* the exception of a failed reconcile has left rerender and its caller: line
\* 152 did not run, the page lives on
ErrorSurfaces ==
    /\ pc = "threw"
    /\ stack' = <<>>
    /\ newVNode' = Null
    /\ dom' = Compact(dom)
    /\ dom0' = Compact(dom)
    /\ pc' = "idle"
    /\ ops' = {}
    /\ consistent0' = TRUE
    /\ last' = NoCall
    /\ trigger' = NoTrigger
    /\ failures' = failures + 1
    /\ UNCHANGED <<hooks, hookIndex, vnode, renders, setCalls, passes, lastSet,
                   setters, ceIn, ceOut>>

\* The program of the repository: the bootstrap, then clicks and setter calls.
Next ==
    \/ Bootstrap
    \/ \E id \in DOMAIN dom.nodes : \E l \in dom.nodes[id].listeners : ClickOn(id, l)
    \/ \E s \in setters : \E v \in SlotValues(s.callPos) : SetStateCall(s, v)
    \/ UpdateDomCall
    \/ UpdateDomReturn
    \/ RerenderEnd

Spec == Init /\ [][Next]_vars

---------------------------------------------------------------------------
(* The program started the other way: instead of lines 207-208, rerender() *)
(* is called once while currentComponent.vnode is null and the mount root  *)
(* is empty.                                                               *)

\* rerender() as the first render: lines 145-151 with currentComponent.vnode
\* = null; line 152 follows in RerenderEnd
BootstrapByRerender ==
    /\ pc = "boot"
    /\ \E r \in {RenderApp(hooks, resetHookIndex(hookIndex), renders + 1)} :
          /\ rerender(r, [kind |-> "startup"])
          /\ lastSet' = r.st.hooks
    /\ renders' = renders + 1
    /\ passes' = passes + 1
    /\ UNCHANGED setCalls

NextBoot ==
    \/ Bootstrap
    \/ BootstrapByRerender
    \/ \E id \in DOMAIN dom.nodes : \E l \in dom.nodes[id].listeners : ClickOn(id, l)
    \/ \E s \in setters : \E v \in SlotValues(s.callPos) : SetStateCall(s, v)
    \/ UpdateDomCall
    \/ UpdateDomReturn
    \/ RerenderEnd

SpecBoot == Init /\ [][NextBoot]_vars

---------------------------------------------------------------------------
(* The reconciler under any component: the render function is supplied     *)
(* from outside (currentComponent.render), so here it returns any tree of  *)
(* Trees, at the bootstrap and at every rerender.                          *)

\* the children a tree is made of: a text, an element with a property, a
\* handler and a child, and two elements of the same tag, one with another
\* value of the property and one bare
Kinds ==
    {Str("a"),
     h("span", Obj([className |-> Str("green"), onClick |-> Fn("H1")]), <<Str("b")>>),
     h("span", Obj([className |-> Str("red")]), <<>>),
     h("span", Null, <<>>)}

KidLists == UNION {[1..n -> Kinds] : n \in 0..MaxKids}

\* the trees the render function returns, built by createElement
Trees == {h("div", Null, kids) : kids \in KidLists}

\* lines 207-208 with a render function that returns t
BootstrapTree(t) ==
    /\ pc = "boot"
    /\ \E hs \in {render(t, RootId, HostState(dom, {}))} :
           /\ dom' = [nodes |-> hs.nodes, next |-> hs.next]
           /\ ops' = hs.ops
           /\ pc' = IF hs.err THEN "threw" ELSE "idle"
    /\ vnode' = t
    /\ trigger' = [kind |-> "bootstrap"]
    /\ UNCHANGED <<hooks, hookIndex, newVNode, stack, renders, setCalls, passes,
                   lastSet, setters, dom0, consistent0, last, failures, ceIn, ceOut>>

\* rerender() with a render function that returns t
RerenderTree(t) ==
    /\ pc = "idle"
    /\ failures < MaxFailures
    /\ rerender([value |-> t,
                 st |-> [hooks |-> hooks, hookIndex |-> resetHookIndex(hookIndex),
                         setters |-> {}]],
                [kind |-> "rerender"])
    /\ UNCHANGED <<renders, setCalls, passes, lastSet>>

NextTrees ==
    \/ \E t \in Trees : BootstrapTree(t)
    \/ \E t \in Trees : RerenderTree(t)
    \/ UpdateDomCall
    \/ UpdateDomReturn
    \/ RerenderEnd
    \/ ErrorSurfaces

SpecTrees == Init /\ [][NextTrees]_vars

---------------------------------------------------------------------------
(* The reconciler under a component that renders a child conditionally     *)
(* ({cond ? <span/> : null}): createElement keeps a null argument among    *)
(* the children (typeof null is 'object', line 8).                         *)

\* the arguments such a component passes to createElement: a text, an
\* element, or null
HoleKinds ==
    {Str("a"), h("span", Null, <<>>), Null}

HoleKidLists == UNION {[1..n -> HoleKinds] : n \in 0..MaxKids}

\* the trees the render function returns, built by createElement
HoleTrees == {h("div", Null, kids) : kids \in HoleKidLists}

\* the trees of the first render: every child is shown
FullTrees ==
    {t \in HoleTrees : \A i \in DOMAIN t.props.children :
                          ~Falsy(t.props.children[i])}

NextHoles ==
    \/ \E t \in FullTrees : BootstrapTree(t)
    \/ \E t \in HoleTrees : RerenderTree(t)
    \/ UpdateDomCall
    \/ UpdateDomReturn
    \/ RerenderEnd
    \/ ErrorSurfaces

SpecHoles == Init /\ [][NextHoles]_vars

---------------------------------------------------------------------------
(* The hooks and the reconciler under a component that keeps the items it  *)
(* shows in a hook slot:                                                   *)
(*   function List() {                                                     *)
(*     const [items, setItems] = useState([]);                             *)
(*     return <div>{items}</div>;                                          *)
(*   }                                                                     *)
(* so that a setItems call can start a reconcile that throws.              *)

ListTree(items) ==
    h("div", Null, <<items>>)

\* List(): [value, st]
List(st) ==
    [value |-> ListTree(useState(Arr(<<>>), st).state),
     st |-> useState(Arr(<<>>), st).st]

\* currentComponent.render() for List, as render number gen
RenderList(hs, hi, gen) ==
    List([hooks |-> hs, hookIndex |-> hi, calls |-> 0, gen |-> gen, setters |-> {}])

\* the items a caller passes to setItems
ItemKinds ==
    {Str("a"), h("span", Null, <<>>)}

ItemLists == {Arr(l) : l \in UNION {[1..n -> ItemKinds] : n \in 0..MaxKids}}

\* lines 207-208 with currentComponent.render = List
BootstrapList ==
    /\ pc = "boot"
    /\ \E r \in {RenderList(hooks, hookIndex, renders + 1)} :
         \E hs \in {render(r.value, RootId, HostState(dom, {}))} :
           /\ vnode' = r.value
           /\ hooks' = r.st.hooks
           /\ hookIndex' = r.st.hookIndex
           /\ setters' = setters \cup r.st.setters
           /\ lastSet' = r.st.hooks
           /\ dom' = [nodes |-> hs.nodes, next |-> hs.next]
           /\ ops' = hs.ops
           /\ pc' = IF hs.err THEN "threw" ELSE "idle"
    /\ renders' = renders + 1
    /\ trigger' = [kind |-> "bootstrap"]
    /\ UNCHANGED <<newVNode, stack, setCalls, passes, dom0, consistent0, last,
                   failures, ceIn, ceOut>>

\* lines 134-137 with currentComponent.render = List: setItems(v) is called
SetItemsCall(s, v) ==
    /\ pc = "idle"
    /\ renders < MaxRenders
    /\ failures < MaxFailures
    /\ \E r \in {RenderList(assignIndex(hooks, s.currentIndex, v),
                            resetHookIndex(hookIndex), renders + 1)} :
          rerender(r, [kind |-> "setState", setter |-> s, value |-> v])
    /\ renders' = renders + 1
    /\ setCalls' = setCalls + 1
    /\ passes' = passes + 1
    /\ lastSet' = assignIndex(lastSet, s.callPos, v)

NextList ==
    \/ BootstrapList
    \/ \E s \in setters : \E v \in ItemLists : SetItemsCall(s, v)
    \/ UpdateDomCall
    \/ UpdateDomReturn
    \/ RerenderEnd
    \/ ErrorSurfaces

SpecList == Init /\ [][NextList]_vars

---------------------------------------------------------------------------
(* The tree builder alone: createElement applied to arguments drawn from   *)
(* the kinds of value a caller can pass as children.                       *)

CEValues ==
    {Str("a"), Num(1), Bool(TRUE), Null, Undefined,
     createTextElement(Str("x")), h("span", Null, <<Str("y")>>),
     Arr(<<>>), Arr(<<Str("a"), Num(2)>>), Arr(<<Arr(<<Str("a")>>)>>)}

CEArgs == UNION {[1..n -> CEValues] : n \in 0..MaxArgs}

InitCE ==
    /\ InitProgram
    /\ ceIn \in [type : {Str("div"), Str("span"), Fn("Toggle")},
                 props : {Null, Obj([className |-> Str("green")])},
                 children : CEArgs]
    /\ ceOut = Null

\* createElement(type, props, ...children) is called outside a render
CreateElementCall ==
    /\ pc = "boot"
    /\ ceOut' = createElement(ceIn.type, ceIn.props, ceIn.children,
                              [hooks |-> hooks, hookIndex |-> hookIndex,
                               calls |-> 0, gen |-> 0, setters |-> {}]).value
    /\ pc' = "built"
    /\ UNCHANGED <<hooks, hookIndex, vnode, newVNode, dom, stack, renders,
                   setCalls, passes, lastSet, setters, ops, dom0, consistent0,
                   last, trigger, failures, ceIn>>

NextCE == CreateElementCall

SpecCE == InitCE /\ [][NextCE]_vars

---------------------------------------------------------------------------
(* Properties.                                                             *)

\* a VNode: an object with a type and a props.children sequence
IsVNode(x) == x.t = "vnode"

\* C9: every entry of the props.children of a createElement result is a
\* VNode; no null, array or raw value is left among the children.
C9_ChildrenAreVNodes ==
    pc = "built" =>
        \A i \in DOMAIN ceOut.props.children : IsVNode(ceOut.props.children[i])

\* the activations of updateDom that patched a node in place and have ended:
\* the one about to return, and every one an exception has just left
EndedPatches ==
    {i \in DOMAIN stack : stack[i].k = "ret" /\ (i = 1 \/ pc = "threw")}

\* C1: when updateDom has reconciled a same-type node whose old VNode has more
\* children than the new one (m > n) and whose host children matched the old
\* VNode, the host node has exactly n children, and the children at positions
\* 0..n-1 whose type did not change are the host nodes that were there.
C1_SurplusChildrenRemoved ==
    \A i \in EndedPatches :
        LET a == stack[i]
            n == Len(a.newVNode.props.children)
            kids == dom.nodes[a.existingDom].childNodes
        IN  (a.matched /\ Len(a.oldVNode.props.children) > n) =>
                /\ Len(kids) = n
                /\ \A j \in 1..n :
                      a.newVNode.props.children[j].type
                          = a.oldVNode.props.children[j].type
                      => kids[j] = a.kids0[j]

\* C2: a rerender that starts with the host tree under the mount root equal to
\* the projection of the old VTree runs to completion; the reconcile raises no
\* host error.
C2_ReconcileCompletes ==
    consistent0 => pc # "threw"

\* C3: once the App is mounted there are exactly two hook slots (Counter's,
\* then Toggle's), and slot i holds the value of the latest setState made
\* through a setter captured at call-order position i, or the initial value;
\* lastSet records just that, so no setter has written another slot.
C3_HookSlotsStable ==
    pc \in {"idle", "reconcile"} =>
        /\ Len(hooks) = 2
        /\ hooks = lastSet

\* both slots have been written by setters, over three setState calls
C3_Witness ==
    /\ pc = "idle"
    /\ setCalls = 3
    /\ hooks = <<Num(-1), Bool(FALSE)>>

\* the value the setState call that started this rerender was given
TriggerValue ==
    IF trigger.kind = "click" THEN HandlerArg(trigger.listener)
    ELSE trigger.value

\* the slot the setState call that started this rerender has captured
TriggerIndex ==
    IF trigger.kind = "click" THEN trigger.listener.setter.currentIndex
    ELSE trigger.setter.currentIndex

\* C10: every setState call has written its value into its captured slot and
\* has run one render of the root and one reconcile pass, which completes:
\* after N calls there have been N rerenders beside the bootstrap render,
\* also when the value is the one the slot already held.
C10_EverySetStateRerenders ==
    /\ pc # "threw"
    /\ pc \in {"idle", "reconcile"} =>
          /\ renders = setCalls + 1
          /\ passes = setCalls
    /\ pc = "reconcile" => At(hooks, TriggerIndex) = TriggerValue

\* the first setState call after the mount passes 0, the value slot 0 holds
C10_Witness ==
    /\ pc = "reconcile"
    /\ stack = <<>>
    /\ setCalls = 1
    /\ trigger.kind = "setState"
    /\ trigger.setter.currentIndex = 0
    /\ trigger.value = Num(0)

\* the <div> of Counter, second child of the <div> of App
CounterDiv(nodes) ==
    childAt(nodes, childAt(nodes, RootId, 0), 1)

\* the <span> with the count, second child of the <h1> of Counter
CountSpan(nodes) ==
    childAt(nodes, childAt(nodes, CounterDiv(nodes), 0), 1)

\* the text node that displays the count
CountText(nodes) ==
    childAt(nodes, CountSpan(nodes), 0)

\* the reconcile of the rerender that the first click on "Increase" after the
\* mount has started is over, and rerender has not returned yet
FirstIncreaseDone ==
    /\ pc = "reconcile"
    /\ stack = <<>>
    /\ setCalls = 1
    /\ trigger.kind = "click"
    /\ trigger.listener.fn = "inc"

\* C4: from the mount (count 0), one click on "Increase" runs one rerender,
\* leaves hooks[0] = 1, and changes the nodeValue of the count's text node
\* from "0" to "1"; no host node is created, removed or replaced, so the
\* divs, the h1, the span and the buttons are the nodes they were.
C4_IncreaseOnce ==
    FirstIncreaseDone =>
        /\ renders = 2
        /\ passes = 1
        /\ hooks[1] = Num(1)
        /\ CountText(dom.nodes) = CountText(dom0.nodes)
        /\ dom0.nodes[CountText(dom0.nodes)].props.nodeValue = Str("0")
        /\ dom.nodes[CountText(dom.nodes)].props.nodeValue = Str("1")
        /\ DOMAIN dom.nodes = DOMAIN dom0.nodes
        /\ \A id \in DOMAIN dom0.nodes :
              /\ dom.nodes[id].childNodes = dom0.nodes[id].childNodes
              /\ dom.nodes[id].tagName = dom0.nodes[id].tagName
        /\ ops \cap {"createElement", "createTextNode", "appendChild",
                     "removeChild", "replaceChild"} = {}

C4_Witness ==
    /\ FirstIncreaseDone
    /\ dom.nodes[CountText(dom.nodes)].props.nodeValue = Str("1")
    /\ dom.nodes[CounterDiv(dom.nodes)].tagName = "div"
    /\ dom.nodes[childAt(dom.nodes, CounterDiv(dom.nodes), 1)].tagName = "button"

\* the host nodes of the subtree at id
Subtree(nodes, id) ==
    Range(Preorder(nodes, id))

\* a call of updateDom with both VNodes present and of the same type
SameTypeCall(a) ==
    /\ ~Falsy(a.newVNode)
    /\ ~Falsy(a.oldVNode)
    /\ a.newVNode.type = a.oldVNode.type

\* the host node the call a found at its index is still there, and is the
\* kind of node with the tag it was when the rerender started
NodeKept(a) ==
    a.parent # NoNode =>
        /\ childAt(dom.nodes, a.parent, a.index) = a.existingDom
        /\ a.existingDom # NoNode =>
              /\ a.existingDom \in DOMAIN dom0.nodes
              /\ dom.nodes[a.existingDom].nodeType = dom0.nodes[a.existingDom].nodeType
              /\ dom.nodes[a.existingDom].tagName = dom0.nodes[a.existingDom].tagName

\* C5: for every call of updateDom with an old and a new VNode both present
\* and of the same type, while the call runs its for-loop and after it has
\* returned, the host node at the call's child index is the node that was
\* there before the call; it is not removed, replaced or recreated.
C5_SameTypeKeepsNode ==
    /\ (last.outcome # "none" /\ SameTypeCall(last)) => NodeKept(last)
    /\ \A i \in DOMAIN stack :
          (stack[i].k = "ret" /\ SameTypeCall(stack[i])) => NodeKept(stack[i])

\* the call on the <div> under the mount root has returned after its children
\* were removed, replaced and patched
C5_Witness ==
    /\ last.case = "patch"
    /\ last.outcome = "returned"
    /\ last.parent = RootId
    /\ SameTypeCall(last)
    /\ last.existingDom # NoNode
    /\ {"removeChild", "replaceChild", "assign"} \subseteq ops

\* updateDom is about to be called with both VNodes present and of different
\* types, on a parent that has a host node at the call's index
TypeChangeCall ==
    /\ pc = "reconcile"
    /\ stack # <<>>
    /\ Head(stack).k = "call"
    /\ ~Falsy(Head(stack).newVNode)
    /\ ~Falsy(Head(stack).oldVNode)
    /\ Head(stack).newVNode.type # Head(stack).oldVNode.type
    /\ Head(stack).parent # NoNode
    /\ childAt(dom.nodes, Head(stack).parent, Head(stack).index) # NoNode

\* the step has put a fresh createDom(f.newVNode) in the place of the host
\* node at f.index and has changed nothing else
Replaced(f) ==
    /\ pc' = "reconcile"
    /\ childAt(dom'.nodes, f.parent, f.index) \notin DOMAIN dom.nodes
    /\ Projects(dom'.nodes, childAt(dom'.nodes, f.parent, f.index), f.newVNode)
    /\ Subtree(dom'.nodes, childAt(dom'.nodes, f.parent, f.index))
           \cap DOMAIN dom.nodes = {}
    /\ Subtree(dom'.nodes, f.parent)
           \cap Subtree(dom.nodes, childAt(dom.nodes, f.parent, f.index)) = {}
    /\ Len(dom'.nodes[f.parent].childNodes) = Len(dom.nodes[f.parent].childNodes)
    /\ \A j \in DOMAIN dom.nodes[f.parent].childNodes \ {f.index + 1} :
          dom'.nodes[f.parent].childNodes[j] = dom.nodes[f.parent].childNodes[j]
    /\ dom'.nodes[f.parent].props = dom.nodes[f.parent].props
    /\ dom'.nodes[f.parent].listeners = dom.nodes[f.parent].listeners
    /\ \A id \in DOMAIN dom.nodes \ {f.parent} : dom'.nodes[id] = dom.nodes[id]

\* Where the parent has a host node at the index, the replacement is made:
\* the node gives way to a fresh createDom(newVNode), no node of the old
\* subtree stays under the parent, and the other children keep their places.
TypeChangeReplacesNode ==
    [][TypeChangeCall => Replaced(Head(stack))]_vars

\* updateDom is about to be called with both VNodes present and of different
\* types
TypeChangeCalled ==
    /\ pc = "reconcile"
    /\ stack # <<>>
    /\ Head(stack).k = "call"
    /\ ~Falsy(Head(stack).newVNode)
    /\ ~Falsy(Head(stack).oldVNode)
    /\ Head(stack).newVNode.type # Head(stack).oldVNode.type

\* C6: every call of updateDom with an old and a new VNode both present and
\* of different types replaces the host node at the call's index by a freshly
\* created subtree equal to createDom(newVNode): no node of the old subtree
\* stays under the parent, the new subtree has the properties and listeners
\* of newVNode only, and the parent's other children keep their positions.
C6_TypeChangeReplaces ==
    [][TypeChangeCalled =>
          (Head(stack).parent # NoNode /\ Replaced(Head(stack)))]_vars

\* a <span> with a property, a listener and a child has been replaced by a text
C6_Witness ==
    /\ last.case = "replace"
    /\ last.outcome = "returned"
    /\ last.oldVNode.type = "span"
    /\ Len(last.oldVNode.props.children) = 1
    /\ last.newVNode.type = "TEXT_ELEMENT"
    /\ last.existingDom \notin Subtree(dom.nodes, RootId)
    /\ dom.nodes[childAt(dom.nodes, last.parent, last.index)].nodeType = "text"

\* a rerender whose render returned the VTree that currentComponent.vnode holds
NoOpRender ==
    /\ pc \in {"reconcile", "threw"}
    /\ newVNode = vnode

PatchedOwnKind ==
    /\ last.case = "patch"
    /\ last.existingDom # NoNode
    /\ dom.nodes[last.existingDom].nodeType
          = (IF last.newVNode.type = "TEXT_ELEMENT" THEN "text" ELSE "element")

\* the host node of the last updateProps holds "" for every plain name of
\* oldProps that newProps lacks, and the new value for every plain name of
\* newProps (all the values of these trees are strings)
PropsAsNew ==
    /\ \A n \in PlainNames(last.oldVNode.props) \ DOMAIN last.newVNode.props :
          /\ n \in DOMAIN dom.nodes[last.existingDom].props
          /\ dom.nodes[last.existingDom].props[n] = Str("")
    /\ \A n \in PlainNames(last.newVNode.props) :
          /\ n \in DOMAIN dom.nodes[last.existingDom].props
          /\ dom.nodes[last.existingDom].props[n] = last.newVNode.props[n]

\* On a host node of the kind the VNodes describe, updateProps leaves the
\* properties as C8 says.
PropsAsNewOnOwnKind ==
    PatchedOwnKind => PropsAsNew

\* C8: after updateProps has run on a host node, every non-handler name of
\* oldProps that is absent from newProps is set to the empty string on the
\* node, and every non-handler name of newProps holds the new value.
C8_PropsAfterUpdate ==
    (last.case = "patch" /\ last.existingDom # NoNode) => PropsAsNew

\* updateProps has just run with old {className: "green", ...} and new {}
C8_Witness ==
    /\ last.case = "patch"
    /\ last.outcome = "running"
    /\ last.existingDom # NoNode
    /\ "className" \in DOMAIN last.oldVNode.props
    /\ last.oldVNode.props.className = Str("green")
    /\ "className" \notin DOMAIN last.newVNode.props
    /\ dom0.nodes[last.existingDom].props.className = Str("green")
    /\ dom.nodes[last.existingDom].props.className = Str("")

\* updateDom is about to be called with oldVNode absent and newVNode present
AppendCalled ==
    /\ pc = "reconcile"
    /\ stack # <<>>
    /\ Head(stack).k = "call"
    /\ Falsy(Head(stack).oldVNode)
    /\ ~Falsy(Head(stack).newVNode)

\* the step has put a fresh createDom(f.newVNode) at child position f.index of
\* f.parent, and the children that were there are all there, in their order
InsertedAtIndex(f) ==
    /\ pc' = "reconcile"
    /\ f.parent # NoNode
    /\ Len(dom'.nodes[f.parent].childNodes) = Len(dom.nodes[f.parent].childNodes) + 1
    /\ f.index + 1 \in DOMAIN dom'.nodes[f.parent].childNodes
    /\ childAt(dom'.nodes, f.parent, f.index) \notin DOMAIN dom.nodes
    /\ Projects(dom'.nodes, childAt(dom'.nodes, f.parent, f.index), f.newVNode)
    /\ \A j \in DOMAIN dom.nodes[f.parent].childNodes :
          dom'.nodes[f.parent].childNodes[IF j >= f.index + 1 THEN j + 1 ELSE j]
              = dom.nodes[f.parent].childNodes[j]

\* C11: every call of updateDom with oldVNode absent and newVNode present
\* leaves the freshly created host subtree of newVNode at child position
\* index of parent, and moves or removes no child the parent had.
C11_NewChildAtIndex ==
    [][AppendCalled => InsertedAtIndex(Head(stack))]_vars

\* what lines 207-208 leave from the initial state: the VTree, the hook
\* slots, hookIndex and the host document
Booted ==
    [vnode |-> RenderApp(<<>>, 0, 1).value,
     hooks |-> RenderApp(<<>>, 0, 1).st.hooks,
     hookIndex |-> RenderApp(<<>>, 0, 1).st.hookIndex,
     dom |-> [nodes |-> render(RenderApp(<<>>, 0, 1).value, RootId,
                               HostState(EmptyDocument, {})).nodes,
              next |-> render(RenderApp(<<>>, 0, 1).value, RootId,
                              HostState(EmptyDocument, {})).next]]

\* C12: whichever way the program started, by lines 207-208 or by one
\* rerender() with vnode = null on the empty mount root, the first render
\* leaves the host tree, the stored VTree, the hook slots and hookIndex that
\* lines 207-208 leave; and every later render ends with two hook slots and
\* hookIndex = 2, the slots holding what the setters were given.
C12_StartupIsRerender ==
    /\ (pc = "idle" /\ renders = 1) =>
          /\ vnode = Booted.vnode
          /\ hooks = Booted.hooks
          /\ hookIndex = Booted.hookIndex
          /\ dom = Booted.dom
    /\ pc = "idle" =>
          /\ hookIndex = 2
          /\ hooks = lastSet

\* the start by rerender() is over: one render, one reconcile pass, no setState
C12_Witness ==
    /\ pc = "idle"
    /\ renders = 1
    /\ passes = 1
    /\ setCalls = 0
    /\ Len(dom.nodes[RootId].childNodes) = 1

\* the reconcile of a rerender is over without an error; line 152 is next
ReconcileCompleted ==
    /\ pc = "reconcile"
    /\ stack = <<>>

\* C13: once a reconcile has failed, every later rerender whose reconcile
\* completes leaves the host tree equal to the projection of its new VTree:
\* structure, property values and listeners of every host node.
C13_SuccessRestoresHost ==
    (ReconcileCompleted /\ failures > 0) => Mounted(dom, newVNode)

RECURSIVE ProjectsStructure(_, _, _)
\* the host subtree at id has the structure of createDom(v): kinds, tags,
\* child order, text values and plain property values (a cleared property
\* counting as absent); listeners are left aside
ProjectsStructure(nodes, id, v) ==
    /\ id # NoNode
    /\ v.t = "vnode"
    /\ nodes[id].nodeType = (IF v.type = "TEXT_ELEMENT" THEN "text" ELSE "element")
    /\ nodes[id].tagName = (IF v.type = "TEXT_ELEMENT" THEN "#text" ELSE v.type)
    /\ \A n \in PlainNames(v.props) :
          /\ n \in DOMAIN nodes[id].props
          /\ nodes[id].props[n] = Stored(nodes[id], n, v.props[n])
    /\ \A n \in DOMAIN nodes[id].props \ PlainNames(v.props) :
          nodes[id].props[n] = Str("")
    /\ Len(nodes[id].childNodes) = Len(v.props.children)
    /\ \A i \in DOMAIN nodes[id].childNodes :
          ProjectsStructure(nodes, nodes[id].childNodes[i], v.props.children[i])

\* the mount root has one child, with the structure of createDom(v)
MountedStructure(d, v) ==
    /\ Len(d.nodes[RootId].childNodes) = 1
    /\ ProjectsStructure(d.nodes, d.nodes[RootId].childNodes[1], v)

RECURSIVE ListenersAsIn(_, _, _)
\* every host node of the subtree at id has exactly the listeners that the
\* on-prefixed attributes of its VNode name, the VNode of a host node being
\* the one at the same child positions in v; a host node with no VNode has none
ListenersAsIn(nodes, id, v) ==
    \/ id = NoNode
    \/ /\ nodes[id].listeners
             = (IF v.t = "vnode"
                THEN {<<eventType(n), v.props[n]>> : n \in HandlerNames(v.props)}
                ELSE {})
       /\ \A i \in DOMAIN nodes[id].childNodes :
             ListenersAsIn(nodes, nodes[id].childNodes[i],
                           IF v.t = "vnode" THEN At(v.props.children, i - 1)
                           ELSE Undefined)

\* the host nodes under the mount root have the listeners of v
MountedListeners(d, v) ==
    \A i \in DOMAIN d.nodes[RootId].childNodes :
        ListenersAsIn(d.nodes, d.nodes[RootId].childNodes[i],
                      IF i = 1 THEN v ELSE Undefined)

\* the initial mount is over
MountCompleted ==
    /\ pc = "idle"
    /\ trigger.kind = "bootstrap"

\* C14: after the initial mount and after every rerender whose reconcile
\* completes, the host tree under the mount root has the structure of the
\* projection of the VTree that is (about to be) stored in
\* currentComponent.vnode.
C14_HostMirrorsVTree ==
    /\ MountCompleted => MountedStructure(dom, vnode)
    /\ ReconcileCompleted => MountedStructure(dom, newVNode)

\* C15: after the initial mount and after every rerender whose reconcile
\* completes, each host node has exactly the listeners of the on-prefixed
\* attributes of its node in the stored VTree: no handler of an earlier
\* render is left, and a click runs one handler.
C15_HandlersOfLastRender ==
    /\ MountCompleted => MountedListeners(dom, vnode)
    /\ ReconcileCompleted => MountedListeners(dom, newVNode)

\* the closures that are subscribed on some host node
Subscribed ==
    UNION {{l[2] : l \in dom.nodes[id].listeners} : id \in DOMAIN dom.nodes}

\* C16: the root render function starts with hookIndex = 0 in every render,
\* the first included, and returns with hookIndex = 2, the number of useState
\* calls of App: before the first render hookIndex is 0, after every render
\* it is 2 (it has advanced by 2 from 0), the setter of the j-th useState
\* call has captured index j-1, and the state a handler of the last render
\* has read is the value of the slot of its setter.
C16_HookIndexPerRender ==
    /\ pc = "boot" => hookIndex = 0
    /\ pc \in {"idle", "reconcile"} =>
          /\ hookIndex = 2
          /\ \A s \in setters : s.currentIndex = s.callPos /\ s.callPos \in {0, 1}
    /\ pc = "idle" =>
          \A f \in Subscribed : f.state = At(hooks, f.setter.currentIndex)

\* three renders are over and both slots were written
C16_Witness ==
    /\ pc = "idle"
    /\ renders = 3
    /\ hookIndex = 2
    /\ hooks = <<Num(1), Bool(FALSE)>>
    /\ Cardinality(Subscribed) = 3

\* a setState call has started a render that is not over, or whose error
\* has not yet left rerender
SetStateRunning ==
    pc \in {"reconcile", "threw"} /\ trigger.kind = "setState"

\* the slot the running setState call has written holds the value it was given
SlotHoldsNewValue ==
    At(hooks, trigger.setter.currentIndex) = trigger.value

\* currentComponent.vnode changes in this step
VNodeReplaced ==
    vnode' # vnode

\* the step is the last one of a rerender whose reconcile has returned
LastStepOfRerender ==
    pc = "reconcile" /\ stack = <<>> /\ vnode' = newVNode /\ pc' = "idle"

\* C17: after the first render, currentComponent.vnode is replaced only by
\* the last step of a rerender whose reconcile has returned, so it holds the
\* previous tree throughout the reconcile and after a reconcile that threw;
\* the slot written by the setState call that started the render holds the
\* new value while the render runs, when the reconcile has thrown, and after
\* the error has left rerender (the hooks are not touched on the way out).
C17_VNodeReplacedLast ==
    /\ [](SetStateRunning => SlotHoldsNewValue)
    /\ [][(pc # "boot" /\ VNodeReplaced) => LastStepOfRerender]_vars
    /\ [][pc = "threw" => (vnode' = vnode /\ hooks' = hooks)]_vars

\* a setItems call has failed and its error has left rerender: the tree is
\* the one of the render before, the slot holds the items of the failed call
C17_Witness ==
    /\ pc = "idle"
    /\ failures = 1
    /\ renders = 3
    /\ vnode = ListTree(Arr(<<Str("a"), Str("a"), Str("a")>>))
    /\ hooks = <<Arr(<<Str("a")>>)>>

\* the host node has no property children and no listener under the event
\* type a handler property named children would give
ChildrenUntouched(node) ==
    /\ "children" \notin DOMAIN node.props
    /\ \A l \in node.listeners : l[1] # eventType("children")

\* C18: createDom and updateProps never treat the props entry children as an
\* attribute: whatever trees of createElement were mounted and reconciled,
\* no host node has got a property named children (assigned, or cleared to
\* the empty string) and none a listener made from it.
C18_ChildrenIsNoAttribute ==
    \A id \in DOMAIN dom.nodes : ChildrenUntouched(dom.nodes[id])

\* a reconcile has created a node and has run both loops of updateProps with
\* a property to clear, one to assign and a handler on either side
C18_Witness ==
    /\ pc = "reconcile"
    /\ {"createElement", "clear", "assign", "addEventListener",
        "removeEventListener"} \subseteq ops
    /\ \E id \in DOMAIN dom.nodes : dom.nodes[id].props # <<>>

=============================================================================
